---- MODULE Spec2Model ----
(***************************************************************************)
(* Model of package mqb (zbindenren/mqb): MongoQuery, the registry of      *)
(* supported query parameters derived from an endpoint struct, and the     *)
(* translation of a request's URL query into filter, sort, projection and  *)
(* paging of an mgo query.                                                  *)
(*                                                                          *)
(* Go strings are TLA+ strings, read character by character with SubSeq;   *)
(* Go maps are TLA+ functions on their key set; nil is the value Nil.      *)
(***************************************************************************)
EXTENDS Integers, Sequences, FiniteSets, TLC

(***************************************************************************)
(* Bounds of the model.                                                     *)
(***************************************************************************)
\* uint and int are UintBits wide in the model (64 in the amd64 build).
UintBits == 6
\* longest disabled list the model lets DisableParameters build
MaxDisabled == 2
\* most names in one DisableParameters call
MaxDisableArgs == 2
\* most documents the store's Count reports
MaxItems == 3

(***************************************************************************)
(* strings                                                                  *)
(***************************************************************************)
Nil == "<nil>"

EmptyMap == [k \in {} |-> Nil]

Char(s, i) == SubSeq(s, i, i)

Upper == "ABCDEFGHIJKLMNOPQRSTUVWXYZ"
Lower == "abcdefghijklmnopqrstuvwxyz"

\* unicode.ToLower on the ASCII letters
LowerChar(c) ==
    IF \E i \in 1..Len(Upper) : Char(Upper, i) = c
    THEN Char(Lower, CHOOSE i \in 1..Len(Upper) : Char(Upper, i) = c)
    ELSE c

RECURSIVE ToLower(_)
ToLower(s) ==
    IF Len(s) = 0 THEN ""
    ELSE LowerChar(Char(s, 1)) \o ToLower(SubSeq(s, 2, Len(s)))

\* strings.Contains(s, c) for a one-character c
ContainsChar(s, c) == \E i \in 1..Len(s) : Char(s, i) = c

\* strings.Split(s, sep) for a one-character sep
RECURSIVE Split(_, _)
Split(s, sep) ==
    IF ~ContainsChar(s, sep) THEN <<s>>
    ELSE LET i == CHOOSE j \in 1..Len(s) :
                    /\ Char(s, j) = sep
                    /\ \A k \in 1..(j - 1) : Char(s, k) # sep
         IN  <<SubSeq(s, 1, i - 1)>> \o Split(SubSeq(s, i + 1, Len(s)), sep)

\* strings.Trim(s, cutset) for a one-character cutset: every leading and
\* every trailing occurrence of the character is removed.
RECURSIVE TrimLeft(_, _)
TrimLeft(s, c) ==
    IF Len(s) > 0 /\ Char(s, 1) = c THEN TrimLeft(SubSeq(s, 2, Len(s)), c) ELSE s

RECURSIVE TrimRight(_, _)
TrimRight(s, c) ==
    IF Len(s) > 0 /\ Char(s, Len(s)) = c
    THEN TrimRight(SubSeq(s, 1, Len(s) - 1), c) ELSE s

Trim(s, c) == TrimRight(TrimLeft(s, c), c)

(***************************************************************************)
(* reflect: struct tags, kinds and the endpoint structs                     *)
(***************************************************************************)
\* index of the first character of s at or after i that ends a tag key
RECURSIVE ScanKey(_, _)
ScanKey(s, i) ==
    IF i <= Len(s) /\ Char(s, i) \notin {" ", ":", "\""} THEN ScanKey(s, i + 1) ELSE i

\* index of the first double quote of s at or after i (Len(s) + 1 if none)
RECURSIVE ScanQuote(_, _)
ScanQuote(s, i) ==
    IF i <= Len(s) /\ Char(s, i) # "\"" THEN ScanQuote(s, i + 1) ELSE i

\* reflect.StructTag.Get(key): the value of key in a tag of the conventional
\* form  key:"value" key2:"value2", or "" when the tag has no such key or is
\* not of that form.  (Values with backslash escapes are not modelled.)
RECURSIVE TagGet(_, _)
TagGet(tag, key) ==
    LET t == TrimLeft(tag, " ")
        i == ScanKey(t, 1)          \* t[i] must be the colon
    IN  IF t = "" THEN ""
        ELSE IF i = 1 \/ i + 1 > Len(t) \/ Char(t, i) # ":" \/ Char(t, i + 1) # "\""
        THEN ""
        ELSE LET name == SubSeq(t, 1, i - 1)
                 j    == ScanQuote(t, i + 2)   \* the closing quote
             IN  IF j > Len(t) THEN ""
                 ELSE IF name = key THEN SubSeq(t, i + 2, j - 1)
                 ELSE TagGet(SubSeq(t, j + 1, Len(t)), key)

mongoTags == <<"omitempty", "minsize", "inline">>

\* newSetFromSlice: the elements of a slice as a set
newSetFromSlice(slice) == {slice[i] : i \in 1..Len(slice)}

\* The values getFieldNameFromTag(tag) can return.  diff.ToSlice()[0] is the
\* first element of a slice built by ranging over a Go map, so any element
\* of the difference can be the one returned.
getFieldNameFromTag(tag) ==
    LET fieldName == TagGet(tag, "bson")
        diff1 == newSetFromSlice(Split(fieldName, ",")) \ newSetFromSlice(mongoTags)
        diff2 == newSetFromSlice(Split(tag, ",")) \ newSetFromSlice(mongoTags)
    IN  IF Len(fieldName) > 1 /\ diff1 # {} THEN diff1
        ELSE IF ContainsChar(tag, ":") THEN {""}
        ELSE IF diff2 # {} THEN diff2
        ELSE {""}

\* a field of a struct type: reflect.StructField's Name, Tag and Type, the
\* Type with its Kind, its element Kind (slices) and its fields (structs)
Scalar(name, tag, kind) ==
    [Name |-> name, Tag |-> tag, Kind |-> kind, Elem |-> "", Fields |-> <<>>]
SliceOf(name, tag, elem) ==
    [Name |-> name, Tag |-> tag, Kind |-> "slice", Elem |-> elem, Fields |-> <<>>]
StructOf(name, tag, fields) ==
    [Name |-> name, Tag |-> tag, Kind |-> "struct", Elem |-> "", Fields |-> fields]

Embedded ==
    << Scalar("EmbeddedBool", "", "bool"),
       Scalar("EmbeddedInt", "", "int64") >>

TestStruct ==
    [Name |-> "TestStruct",
     Fields |->
       << Scalar("FloatMember", "", "float64"),
          Scalar("UintMember", "", "uint"),
          Scalar("IntMember", "bson:\"intMember\"", "int64"),
          Scalar("BoolMember", "mybool", "bool"),
          Scalar("StringMember",
                 "json:\"name\" binding:\"required\" validate:\"nonzero\"", "string"),
          StructOf("EmbeddedMember", "", Embedded),
          SliceOf("StringSliceMember", "bson:\"strSliceMember\"", "string"),
          SliceOf("IntSliceMember", "", "int") >>]

\* the Person of the package documentation, stored under the bson keys n and age
Person ==
    [Name |-> "Person",
     Fields |->
       << Scalar("Name", "bson:\"n\"", "string"),
          Scalar("Age", "bson:\"age,omitempty\"", "int") >>]

EndPointStructs == {TestStruct, Person}

(***************************************************************************)
(* strconv and bson: the conversions of a raw parameter value               *)
(***************************************************************************)
Digits == "0123456789"
HexDigits == "0123456789abcdefABCDEF"

IsDigits(s) == \A i \in 1..Len(s) : ContainsChar(Digits, Char(s, i))

DigitVal(c) == (CHOOSE i \in 1..Len(Digits) : Char(Digits, i) = c) - 1

\* the number a string of decimal digits denotes
RECURSIVE DecimalVal(_)
DecimalVal(s) ==
    IF Len(s) = 0 THEN 0
    ELSE 10 * DecimalVal(SubSeq(s, 1, Len(s) - 1)) + DigitVal(Char(s, Len(s)))

\* uint holds 0 .. UintMax - 1, int holds -IntMax .. IntMax - 1
UintMax == 2 ^ UintBits
IntMax == 2 ^ (UintBits - 1)

\* int(u): the conversion of a uint to int keeps the bits
UintToInt(u) == IF u >= IntMax THEN u - UintMax ELSE u

\* a parsed value with its Go type, and a failed conversion
Val(t, v) == [t |-> t, v |-> v]
Failed == Val("error", "")

\* strconv.ParseBool
ParseBool(str) ==
    IF str \in {"1", "t", "T", "TRUE", "true", "True"} THEN Val("bool", TRUE)
    ELSE IF str \in {"0", "f", "F", "FALSE", "false", "False"} THEN Val("bool", FALSE)
    ELSE Failed

\* strconv.ParseUint(str, 10, 0): decimal digits only, in the range of uint
ParseUint(str) ==
    IF Len(str) > 0 /\ IsDigits(str) /\ DecimalVal(str) < UintMax
    THEN Val("uint", DecimalVal(str))
    ELSE Failed

\* strconv.Atoi: an optional sign and decimal digits, in the range of int
Atoi(str) ==
    LET signed == Len(str) > 0 /\ Char(str, 1) \in {"+", "-"}
        neg    == Len(str) > 0 /\ Char(str, 1) = "-"
        body   == IF signed THEN SubSeq(str, 2, Len(str)) ELSE str
    IN  IF Len(body) > 0 /\ IsDigits(body)
           /\ DecimalVal(body) < IntMax + (IF neg THEN 1 ELSE 0)
        THEN Val("int", IF neg THEN 0 - DecimalVal(body) ELSE DecimalVal(body))
        ELSE Failed

\* the digits of a decimal fraction without its trailing zeros
RECURSIVE StripZeros(_)
StripZeros(s) ==
    IF Len(s) > 0 /\ Char(s, Len(s)) = "0" THEN StripZeros(SubSeq(s, 1, Len(s) - 1)) ELSE s

\* strconv.ParseFloat(str, 64) on decimal numerals without exponent: an
\* optional sign, digits and at most one point, at least one digit.  The
\* value is <<n, k>> for n / 10^k with k least.
ParseFloat(str) ==
    LET signed == Len(str) > 0 /\ Char(str, 1) \in {"+", "-"}
        neg    == Len(str) > 0 /\ Char(str, 1) = "-"
        body   == IF signed THEN SubSeq(str, 2, Len(str)) ELSE str
        parts  == Split(body, ".")
        whole  == parts[1]
        frac   == IF Len(parts) = 2 THEN StripZeros(parts[2]) ELSE ""
        n      == DecimalVal(whole \o frac)
    IN  IF /\ Len(parts) <= 2
           /\ IsDigits(whole) /\ (Len(parts) = 2 => IsDigits(parts[2]))
           /\ Len(whole) + (IF Len(parts) = 2 THEN Len(parts[2]) ELSE 0) > 0
        THEN Val("float64", <<IF neg THEN 0 - n ELSE n, IF n = 0 THEN 0 ELSE Len(frac)>>)
        ELSE Failed

\* bson.IsObjectIdHex: 24 hexadecimal digits
IsObjectIdHex(str) ==
    Len(str) = 24 /\ \A i \in 1..Len(str) : ContainsChar(HexDigits, Char(str, i))

(***************************************************************************)
(* utils.go                                                                 *)
(***************************************************************************)
validMetaParameters ==
    [page |-> "uint", limit |-> "uint", field |-> "string", sort |-> "string"]

contains(list, value) == \E i \in 1..Len(list) : list[i] = value

\* m[k] = v on a Go map
Put(m, k, v) == [x \in (DOMAIN m) \cup {k} |-> IF x = k THEN v ELSE m[x]]

\* for k, v := range over { m[k] = v }
Overlay(m, over) ==
    [x \in (DOMAIN m) \cup (DOMAIN over) |-> IF x \in DOMAIN over THEN over[x] ELSE m[x]]

\* the meta-parameters that are not disabled, written over m
MetaLoop(m, disabled) ==
    Overlay(m, [k \in {x \in DOMAIN validMetaParameters : ~contains(disabled, x)}
                  |-> validMetaParameters[k]])

\* The maps createValidParametersMap(endPointStruct, disabledParameters...)
\* can return: one map for each choice getFieldNameFromTag can make.
\* FieldLoop is the loop over the fields i..NumField with the map m so far.
RECURSIVE createValidParametersMap(_, _)
RECURSIVE FieldLoop(_, _, _, _)
FieldLoop(fields, i, m, disabled) ==
    IF i > Len(fields) THEN {m}
    ELSE LET field == fields[i]
             names == {IF Len(n) = 0 THEN ToLower(field.Name) ELSE n :
                          n \in getFieldNameFromTag(field.Tag)}
             after ==
               IF field.Kind = "struct"
               THEN {Overlay(m, sub) :
                        sub \in createValidParametersMap(
                                   [Name |-> field.Name, Fields |-> field.Fields],
                                   disabled)}
               ELSE IF field.Kind = "slice"
               THEN {IF ~contains(disabled, fieldName)
                     THEN Put(m, fieldName, field.Elem) ELSE m : fieldName \in names}
               ELSE {IF ~contains(disabled, fieldName)
                     THEN Put(m, fieldName, field.Kind) ELSE m : fieldName \in names}
         IN  UNION {FieldLoop(fields, i + 1, m2, disabled) : m2 \in after}

createValidParametersMap(struct, disabled) ==
    {MetaLoop(m, disabled) :
        m \in FieldLoop(struct.Fields, 1, EmptyMap, disabled)}

\* the names and kinds the setup calls are made with
DisableNames == {"mybool", "embeddedint", "limit", "offset"}
AddNames == {"test", "limit", "mybool"}
AddKinds == {"bool", "struct"}

\* createValidParametersMap of the endpoint structs, evaluated once for the
\* disabled lists the setup calls build (a table of its results)
DisabledLists == UNION {[1..n -> DisableNames] : n \in 0..MaxDisabled}
IntrospectedMaps ==
    {<<s.Name, d, createValidParametersMap(s, d)>> : s \in EndPointStructs, d \in DisabledLists}
Introspect(struct, disabled) ==
    IF struct \in EndPointStructs /\ disabled \in DisabledLists
    THEN (CHOOSE t \in IntrospectedMaps : t[1] = struct.Name /\ t[2] = disabled)[3]
    ELSE createValidParametersMap(struct, disabled)

(***************************************************************************)
(* the request: req.URL.Query(), a map from parameter name to its values    *)
(***************************************************************************)
\* an error: nil, or a message with the HTTP code attached to it (0: none)
NoError == [msg |-> "", code |-> 0]
Error(msg, code) == [msg |-> msg, code |-> code]
StatusBadRequest == 400
StatusInternalServerError == 500

\* a Go map or slice that can be nil
NilOf(zero) == [isNil |-> TRUE, m |-> zero]
Some(m) == [isNil |-> FALSE, m |-> m]

BoolKinds == {"bool"}
IntKinds == {"int", "int8", "int16", "int32", "int64"}
UintKinds == {"uint", "uint8", "uint16", "uint32", "uint64"}
FloatKinds == {"float32", "float64"}

\* the conversion the switch of createQueryFilter applies to one value
ParseOne(kind, v) ==
    IF kind \in BoolKinds THEN ParseBool(v)
    ELSE IF kind \in IntKinds THEN Atoi(v)
    ELSE IF kind \in UintKinds THEN ParseUint(v)
    ELSE ParseFloat(v)

\* a loop that converts the first value only and takes the others as they
\* convert (what ValuesLoop must not be)
ValuesLoopFirstOnly(kind, parameterValues, i, s) ==
    IF ParseOne(kind, parameterValues[1]).t = "error" THEN [ok |-> FALSE, s |-> <<>>]
    ELSE [ok |-> TRUE,
          s |-> [j \in 1..Len(parameterValues) |-> ParseOne(kind, parameterValues[j])]]

\* for _, v := range parameterValues: convert v and append it to s, or
\* return at the first value that does not convert
RECURSIVE ValuesLoop(_, _, _, _)
ValuesLoop(kind, parameterValues, i, s) ==
    IF i > Len(parameterValues) THEN [ok |-> TRUE, s |-> s]
    ELSE LET r == ParseOne(kind, parameterValues[i])
         IN  IF r.t = "error" THEN [ok |-> FALSE, s |-> <<>>]
             ELSE ValuesLoop(kind, parameterValues, i + 1, Append(s, r))

\* string values that become pattern terms whatever their number (what
\* StringValues must not be)
StringValuesAllRegEx(parameterValues) ==
    [i \in 1..Len(parameterValues) |->
        IF IsObjectIdHex(parameterValues[i])
        THEN Val("ObjectId", parameterValues[i])
        ELSE Val("RegEx", parameterValues[i])]

\* case reflect.String
StringValues(parameterValues) ==
    IF Len(parameterValues) = 1
    THEN IF IsObjectIdHex(parameterValues[1])
         THEN <<Val("ObjectId", parameterValues[1])>>
         ELSE <<Val("RegEx", parameterValues[1])>>
    ELSE [i \in 1..Len(parameterValues) |->
             IF IsObjectIdHex(parameterValues[i])
             THEN Val("ObjectId", parameterValues[i])
             ELSE Val("string", parameterValues[i])]

\* a meta-parameter test that forgets limit (what IsMetaParameter must not be)
IsMetaParameterButLimit(parameterName) == parameterName \in {"page", "field", "sort"}

\* _, ok := validMetaParameters[parameterName]
IsMetaParameter(parameterName) == parameterName \in DOMAIN validMetaParameters

\* filter[parameterName] = s[0], or {"$in": s}
FilterTerm(s) == IF Len(s) = 1 THEN s[1] ELSE Val("$in", s)

\* createQueryFilter with the registry sp: the loop over the parameters of
\* req from the i-th of order on, order being the order in which the range
\* over the map req.URL.Query() visits them
RECURSIVE FilterLoop(_, _, _, _, _)
FilterLoop(sp, req, order, i, filter) ==
    IF i > Len(order) THEN [filter |-> Some(filter), err |-> NoError]
    ELSE LET parameterName == order[i]
             parameterValues == req[parameterName]
         IN  IF parameterName \notin DOMAIN sp
             THEN [filter |-> NilOf(EmptyMap),
                   err |-> Error("parameter is not supported", StatusBadRequest)]
             ELSE IF IsMetaParameter(parameterName)
             THEN FilterLoop(sp, req, order, i + 1, filter)
             ELSE IF sp[parameterName] \in BoolKinds \cup IntKinds \cup UintKinds \cup FloatKinds
             THEN LET r == ValuesLoop(sp[parameterName], parameterValues, 1, <<>>)
                  IN  IF ~r.ok
                      THEN [filter |-> NilOf(EmptyMap),
                            err |-> Error("invalid value", StatusBadRequest)]
                      ELSE FilterLoop(sp, req, order, i + 1,
                                      Put(filter, parameterName, FilterTerm(r.s)))
             ELSE IF sp[parameterName] = "string"
             THEN FilterLoop(sp, req, order, i + 1,
                             Put(filter, parameterName, FilterTerm(StringValues(parameterValues))))
             ELSE [filter |-> NilOf(EmptyMap),
                   err |-> Error("reflection kind is not supported", StatusBadRequest)]

createQueryFilterOf(sp, req, order) == FilterLoop(sp, req, order, 1, EmptyMap)

\* createFieldsMap with the registry sp
RECURSIVE FieldsLoop(_, _, _, _)
FieldsLoop(sp, field, i, fields) ==
    IF i > Len(field) THEN [fields |-> Some(fields), err |-> NoError]
    ELSE IF field[i] \notin DOMAIN sp
    THEN [fields |-> NilOf(EmptyMap), err |-> Error("unsupported field value", 0)]
    ELSE FieldsLoop(sp, field, i + 1, Put(fields, field[i], 1))

createFieldsMapOf(sp, req) ==
    IF "field" \in DOMAIN req THEN FieldsLoop(sp, req["field"], 1, EmptyMap)
    ELSE [fields |-> Some(EmptyMap), err |-> NoError]

\* the key createSortFields looks up for the sort value v
SortKey(v) == Trim(v, "-")

\* createSortFields with the registry sp
RECURSIVE SortLoop(_, _, _, _)
SortLoop(sp, sortField, i, sortFields) ==
    IF i > Len(sortField) THEN [sortFields |-> Some(sortFields), err |-> NoError]
    ELSE IF SortKey(sortField[i]) \notin DOMAIN sp
    THEN [sortFields |-> NilOf(<<>>),
          err |-> Error("unsupported field value", StatusBadRequest)]
    ELSE SortLoop(sp, sortField, i + 1, Append(sortFields, sortField[i]))

createSortFieldsOf(sp, req) ==
    IF "sort" \in DOMAIN req THEN SortLoop(sp, req["sort"], 1, <<>>)
    ELSE [sortFields |-> Some(<<>>), err |-> NoError]

\* getUint(req, param): the first value of param as a uint; ok tells
\* whether the parameter is present
getUintParam(req, param) ==
    IF param \in DOMAIN req
    THEN LET r == ParseUint(req[param][1])
         IN  IF r.t = "error"
             THEN [v |-> 0, ok |-> TRUE, err |-> Error("invalid value for", 0)]
             ELSE [v |-> r.v, ok |-> TRUE, err |-> NoError]
    ELSE [v |-> 0, ok |-> FALSE, err |-> NoError]

\* getUint(req, param, defaultValue), as CreateQuery calls it: the default
\* when the parameter is absent
getUint(req, param, defaultValue) ==
    LET r == getUintParam(req, param)
    IN  IF r.ok THEN [v |-> r.v, err |-> r.err]
        ELSE [v |-> defaultValue, err |-> NoError]

DefaultPageSize == 20

\* structName: the lower-cased name of the type
structName(structObj) == ToLower(structObj.Name)

\* an mgo.Query: the collection and what Find, Select, Sort, Limit and Skip set
NoQuery ==
    [collection |-> "", filter |-> EmptyMap, selector |-> NilOf(EmptyMap),
     sort |-> <<>>, limit |-> 0, skip |-> 0]

\* CreateQuery(req) on the endpoint struct es, the registry sp and the page pg:
\* the query and error it returns and the value it leaves in mq.page
CreateQueryOf(es, sp, pg, req, order) ==
    LET f    == createQueryFilterOf(sp, req, order)
        sel  == createFieldsMapOf(sp, req)      \* its error is overwritten
        srt  == createSortFieldsOf(sp, req)
        size == getUint(req, "limit", DefaultPageSize)
        cur  == getUint(req, "page", 1)
        pg1  == [pg EXCEPT !.Size = size.v]
        pg2  == [pg1 EXCEPT !.Current = cur.v]
    IN  IF f.err # NoError
        THEN [q |-> NilOf(NoQuery), err |-> f.err, page |-> pg]
        ELSE IF srt.err # NoError
        THEN [q |-> NilOf(NoQuery), err |-> srt.err, page |-> pg]
        ELSE IF size.err # NoError
        THEN [q |-> NilOf(NoQuery), err |-> Error(size.err.msg, StatusBadRequest),
              page |-> pg1]
        ELSE IF cur.err # NoError
        THEN [q |-> NilOf(NoQuery), err |-> Error(cur.err.msg, StatusBadRequest),
              page |-> pg2]
        ELSE IF cur.v = 0
        THEN [q |-> NilOf(NoQuery), err |-> Error("page cannot be 0", StatusBadRequest),
              page |-> pg2]
        ELSE [q |-> Some([collection |-> structName(es),
                          filter |-> f.filter.m,
                          selector |-> sel.fields,
                          sort |-> srt.sortFields.m,
                          limit |-> UintToInt(size.v),
                          skip |-> UintToInt(((cur.v - 1) * size.v) % UintMax)]),
              err |-> NoError, page |-> pg2]

\* The pages calculateLastPage can leave.  With Size = 0 the quotient is +Inf
\* or NaN, and its conversion to uint is implementation-specific: the sign
\* bit alone on amd64, the largest uint or 0 on arm64.
calculateLastPage(p) ==
    IF p.Size = 0
    THEN {[p EXCEPT !.Last = l] : l \in {IntMax, UintMax - 1, 0}}
    ELSE {[p EXCEPT !.Last = (p.Items + p.Size - 1) \div p.Size]}

\* the documents q.All fetches from a collection with items matching
\* documents, numbered in sort order: limit 0 is no limit
Fetch(items, q) ==
    LET skip  == IF q.skip < 0 THEN 0 ELSE q.skip
        avail == IF items > skip THEN items - skip ELSE 0
        lim   == IF q.limit < 0 THEN 0 - q.limit ELSE q.limit
        n     == IF lim = 0 \/ avail < lim THEN avail ELSE lim
    IN  [i \in 1..n |-> skip + i]

NoResponse == [Content |-> <<>>, Page |-> [Size |-> 0, Items |-> 0, Last |-> 0, Current |-> 0]]

(***************************************************************************)
(* MongoQuery                                                               *)
(***************************************************************************)
VARIABLES
    endPointStruct,                 \* mq.endPointStruct
    supportedParameters,            \* mq.supportedParameters
    additionalSupportedParamters,   \* mq.additionalSupportedParamters
    disabledParameters,             \* mq.disabledParameters
    page,                           \* mq.page
    last,                           \* the last call: its name, arguments and results
    hist,                           \* every name disabled and every (name, kind) added so far
    inflight                        \* the CreateQuery and Run calls running concurrently on mq

vars == <<endPointStruct, supportedParameters, additionalSupportedParamters,
          disabledParameters, page, last, hist, inflight>>

\* the argument lists of DisableParameters: 1..MaxDisableArgs names
DisableArgs == UNION {[1..n -> DisableNames] : n \in 1..MaxDisableArgs}

\* most calls running concurrently on one MongoQuery
MaxInFlight == 2
Goroutines == 1..MaxInFlight

\* a goroutine's call: where it is (pc), the method and request, the limit
\* and skip it has set on its query, the count it got, its response's Page
\* and the error it returns
Idle ==
    [pc |-> "idle", op |-> "", req |-> EmptyMap, limit |-> 0, skip |-> 0, items |-> 0,
     Page |-> [Size |-> 0, Items |-> 0, Last |-> 0, Current |-> 0], err |-> NoError]

\* NewMongoQuery(endPointStruct, database)
Init ==
    /\ endPointStruct \in EndPointStructs
    /\ supportedParameters \in Introspect(endPointStruct, <<>>)
    /\ disabledParameters = <<>>
    /\ additionalSupportedParamters = EmptyMap
    /\ page = [Size |-> 0, Items |-> 0, Last |-> 0, Current |-> 0]
    /\ last = [op |-> "NewMongoQuery"]
    /\ hist = [disabled |-> {}, added |-> EmptyMap]
    /\ inflight = [g \in Goroutines |-> Idle]

\* a loop that appends every name (what AppendNew must not be)
AppendAll(list, paramters) == list \o paramters

\* the loop of DisableParameters: append each name not yet in the list
RECURSIVE AppendNew(_, _)
AppendNew(list, paramters) ==
    IF Len(paramters) = 0 THEN list
    ELSE AppendNew(IF ~contains(list, Head(paramters))
                   THEN Append(list, Head(paramters)) ELSE list,
                   Tail(paramters))

\* a rebuild that does not write the added parameters over the introspected
\* map (what DisableParametersFrom must not be)
DisableParametersFromIntrospection(sp, asp, dp, paramters) ==
    LET dp2 == AppendNew(dp, paramters)
    IN  {[supportedParameters |-> m,
          additionalSupportedParamters |-> asp,
          disabledParameters |-> dp2] :
             m \in Introspect(endPointStruct, dp2)}

\* The registry states DisableParameters(paramters...) can leave, from the
\* registry state (sp, asp, dp).
DisableParametersFrom(sp, asp, dp, paramters) ==
    LET dp2 == AppendNew(dp, paramters)
    IN  {[supportedParameters |-> Overlay(m, asp),
          additionalSupportedParamters |-> asp,
          disabledParameters |-> dp2] :
             m \in Introspect(endPointStruct, dp2)}

DisableParameters(paramters) ==
    /\ Len(AppendNew(disabledParameters, paramters)) <= MaxDisabled
    /\ \E r \in DisableParametersFrom(supportedParameters, additionalSupportedParamters,
                                       disabledParameters, paramters) :
          /\ supportedParameters' = r.supportedParameters
          /\ additionalSupportedParamters' = r.additionalSupportedParamters
          /\ disabledParameters' = r.disabledParameters
    /\ last' = [op |-> "DisableParameters", paramters |-> paramters]
    /\ hist' = [hist EXCEPT !.disabled = @ \cup newSetFromSlice(paramters)]
    /\ UNCHANGED <<endPointStruct, page, inflight>>

\* The registry state AddOrOverwriteValidParameter(name, value) leaves.
AddOrOverwriteValidParameterFrom(sp, asp, dp, name, value) ==
    LET asp2 == Put(asp, name, value)
    IN  [supportedParameters |-> Overlay(sp, asp2),
         additionalSupportedParamters |-> asp2,
         disabledParameters |-> dp]

AddOrOverwriteValidParameter(name, value) ==
    LET r == AddOrOverwriteValidParameterFrom(supportedParameters,
                 additionalSupportedParamters, disabledParameters, name, value)
    IN  /\ supportedParameters' = r.supportedParameters
        /\ additionalSupportedParamters' = r.additionalSupportedParamters
        /\ disabledParameters' = r.disabledParameters
        /\ last' = [op |-> "AddOrOverwriteValidParameter", name |-> name, value |-> value]
        /\ hist' = [hist EXCEPT !.added = Put(@, name, value)]
        /\ UNCHANGED <<endPointStruct, page, inflight>>

\* The calls on a request return their results to the caller: last holds the
\* results until the caller has taken them (Return), and then the caller
\* makes its next call.
RequestOps ==
    {"createQueryFilter", "createFieldsMap", "createSortFields", "CreateQuery", "Run",
     "getFieldNameFromTag"}
Returned == last.op \notin RequestOps

Return ==
    /\ ~Returned
    /\ last' = [op |-> "return"]
    /\ UNCHANGED <<endPointStruct, supportedParameters, additionalSupportedParamters,
                   disabledParameters, page, hist, inflight>>

\* the orders in which a range over the map req can visit its keys
Orders(req) ==
    {o \in [1..Cardinality(DOMAIN req) -> DOMAIN req] :
        \A n \in DOMAIN req : \E i \in DOMAIN o : o[i] = n}

createQueryFilter(req) ==
    /\ Returned
    /\ \E order \in Orders(req) :
          \E r \in {createQueryFilterOf(supportedParameters, req, order)} :
              last' = [op |-> "createQueryFilter", req |-> req, order |-> order,
                       filter |-> r.filter, err |-> r.err]
    /\ UNCHANGED <<endPointStruct, supportedParameters, additionalSupportedParamters,
                   disabledParameters, page, hist, inflight>>

createFieldsMap(req) ==
    /\ Returned
    /\ \E r \in {createFieldsMapOf(supportedParameters, req)} :
           last' = [op |-> "createFieldsMap", req |-> req,
                    fields |-> r.fields, err |-> r.err]
    /\ UNCHANGED <<endPointStruct, supportedParameters, additionalSupportedParamters,
                   disabledParameters, page, hist, inflight>>

createSortFields(req) ==
    /\ Returned
    /\ \E r \in {createSortFieldsOf(supportedParameters, req)} :
           last' = [op |-> "createSortFields", req |-> req,
                    sortFields |-> r.sortFields, err |-> r.err]
    /\ UNCHANGED <<endPointStruct, supportedParameters, additionalSupportedParamters,
                   disabledParameters, page, hist, inflight>>

CreateQuery(req) ==
    /\ Returned
    /\ \E order \in Orders(req) :
          \E r \in {CreateQueryOf(endPointStruct, supportedParameters, page, req, order)} :
              /\ page' = r.page
              /\ last' = [op |-> "CreateQuery", req |-> req, order |-> order,
                           q |-> r.q, err |-> r.err]
    /\ UNCHANGED <<endPointStruct, supportedParameters, additionalSupportedParamters,
                   disabledParameters, hist, inflight>>

\* Run(req) against a collection in which items documents match, and whose
\* Count and All calls fail or not.  last.calls lists the store calls made,
\* and last.calculated the page calculateLastPage was called on.
Run(req) ==
    /\ Returned
    /\ \E order \in Orders(req) :
       \E r \in {CreateQueryOf(endPointStruct, supportedParameters, page, req, order)} :
          LET countQuery == [r.q.m EXCEPT !.limit = 0, !.skip = 0]
              count == [call |-> "Count", q |-> countQuery]
              all   == [call |-> "All", q |-> r.q.m]
              run == [op |-> "Run", req |-> req, order |-> order, q |-> r.q]
          IN  /\ page' = r.page
              /\ IF r.err # NoError
                 THEN last' = run @@ [err |-> r.err, response |-> NilOf(NoResponse),
                                      calls |-> <<>>, calculated |-> NilOf(r.page)]
                 ELSE \/ last' = run @@ [err |-> Error("count", StatusBadRequest),
                                          response |-> NilOf(NoResponse),
                                          calls |-> <<count>>, calculated |-> NilOf(r.page)]
                      \/ \E items \in 0..MaxItems :
                         \E p \in calculateLastPage([r.page EXCEPT !.Items = items]) :
                            \/ last' = run @@ [err |-> Error("all", StatusInternalServerError),
                                               response |-> NilOf(NoResponse),
                                               calls |-> <<count, all>>,
                                               calculated |-> Some([r.page EXCEPT !.Items = items])]
                            \/ last' = run @@ [err |-> NoError,
                                               response |-> Some([Content |-> Fetch(items, r.q.m),
                                                                  Page |-> p]),
                                               calls |-> <<count, all>>,
                                               calculated |-> Some([r.page EXCEPT !.Items = items])]
    /\ UNCHANGED <<endPointStruct, supportedParameters, additionalSupportedParamters,
                   disabledParameters, hist, inflight>>

(***************************************************************************)
(* the requests                                                             *)
(***************************************************************************)
\* the non-empty value lists of at most n values from S
ValueSeqs(S, n) == UNION {[1..k -> S] : k \in 1..n}

One(name, values) == [n \in {name} |-> values]
Two(a, va, b, vb) == [n \in {a, b} |-> IF n = a THEN va ELSE vb]

\* most values of one parameter in a request
MaxValues == 2

ObjId == "54e1b216a8f830ee6dead911"
FilterNames ==
    {"mybool", "intMember", "uintmember", "floatmember", "stringmember", "test",
     "limit", "notAMember"}
RawValues == {"true", "2", "-1", "2.5", "peter", ObjId}
PairNames == {"mybool", "intMember", "limit", "notAMember"}
PairValues == {"true", "2", "peter"}

FilterRequests ==
    {One(n, vs) : n \in FilterNames, vs \in ValueSeqs(RawValues, MaxValues)}
    \cup {Two(ab[1], <<va>>, ab[2], <<vb>>) :
             ab \in {x \in PairNames \X PairNames : x[1] # x[2]},
             va \in PairValues, vb \in PairValues}

SortValues == {"mybool", "-intMember", "--mybool", "intMember-", "notAMember", "-"}
SortRequests == {One("sort", vs) : vs \in ValueSeqs(SortValues, MaxValues)} \cup {EmptyMap}

FieldValues == {"mybool", "age", "notAMember"}
FieldRequests == {One("field", vs) : vs \in ValueSeqs(FieldValues, MaxValues)} \cup {EmptyMap}

\* requests of CreateQuery and Run: limit and page present or not, and one
\* of field, sort or a filter parameter
LimitValues == {"0", "2", "many"}
PageValues == {"0", "2", "33", "one"}
Part(name, S) == {EmptyMap} \cup {One(name, <<v>>) : v \in S}
PageRequests ==
    {l @@ p : l \in Part("limit", LimitValues), p \in Part("page", PageValues)}
QueryRequests ==
    PageRequests
    \cup Part("field", FieldValues)
    \cup Part("sort", {"-mybool", "notAMember"})
    \cup {One("mybool", <<v>>) : v \in {"true", "peter"}}

(***************************************************************************)
(* the specifications                                                       *)
(***************************************************************************)
\* setup: any DisableParameters and AddOrOverwriteValidParameter calls
Next ==
    \/ \E paramters \in DisableArgs : DisableParameters(paramters)
    \/ \E name \in AddNames, value \in AddKinds : AddOrOverwriteValidParameter(name, value)

Spec == Init /\ [][Next]_vars

\* setup calls, and the filter, sort and projection of requests
FilterSetup ==
    \/ \E n \in {"mybool", "limit"} : DisableParameters(<<n>>)
    \/ \E a \in {<<"test", "bool">>, <<"limit", "bool">>, <<"mybool", "struct">>} :
          AddOrOverwriteValidParameter(a[1], a[2])

NextFilter ==
    \/ FilterSetup
    \/ \E req \in FilterRequests : createQueryFilter(req)
    \/ \E req \in SortRequests : createSortFields(req)
    \/ \E req \in FieldRequests : createFieldsMap(req)
    \/ Return

SpecFilter == Init /\ [][NextFilter]_vars

\* setup calls, and requests built into queries and run
QuerySetup ==
    \/ DisableParameters(<<"limit">>)
    \/ AddOrOverwriteValidParameter("limit", "bool")

NextQuery ==
    \/ QuerySetup
    \/ \E req \in QueryRequests : CreateQuery(req)
    \/ \E req \in QueryRequests : Run(req)
    \/ Return

SpecQuery == Init /\ [][NextQuery]_vars

(***************************************************************************)
(* CreateQuery and Run called concurrently on one MongoQuery, statement by  *)
(* statement: mq.page is shared by the calls                                *)
(***************************************************************************)
\* requests of the concurrent calls: limit and page, present or not
ConcurrentRequests ==
    {l @@ p : l \in Part("limit", {"2", "5"}), p \in Part("page", {"0", "2"})}

Step(g, next) ==
    /\ inflight' = [inflight EXCEPT ![g] = next]
    /\ UNCHANGED <<endPointStruct, supportedParameters, additionalSupportedParamters,
                   disabledParameters, last, hist>>

Fail(g, err) == [inflight[g] EXCEPT !.pc = "done", !.err = err]

\* the call starts: createQueryFilter and createSortFields read the registry
Begin(g, op, req) ==
    /\ inflight[g].pc = "idle"
    /\ \E order \in Orders(req) :
          LET f   == createQueryFilterOf(supportedParameters, req, order)
              srt == createSortFieldsOf(supportedParameters, req)
              call == [Idle EXCEPT !.op = op, !.req = req]
          IN  Step(g, IF f.err # NoError THEN [call EXCEPT !.pc = "done", !.err = f.err]
                      ELSE IF srt.err # NoError THEN [call EXCEPT !.pc = "done", !.err = srt.err]
                      ELSE [call EXCEPT !.pc = "size"])
    /\ UNCHANGED page

\* mq.page.Size, err = getUint(req, "limit", DefaultPageSize)
SetSize(g) ==
    /\ inflight[g].pc = "size"
    /\ \E size \in {getUint(inflight[g].req, "limit", DefaultPageSize)} :
          /\ page' = [page EXCEPT !.Size = size.v]
          /\ Step(g, IF size.err # NoError
                     THEN Fail(g, Error(size.err.msg, StatusBadRequest))
                     ELSE [inflight[g] EXCEPT !.pc = "current"])

\* mq.page.Current, err = getUint(req, "page", 1)
SetCurrent(g) ==
    /\ inflight[g].pc = "current"
    /\ \E cur \in {getUint(inflight[g].req, "page", 1)} :
          /\ page' = [page EXCEPT !.Current = cur.v]
          /\ Step(g, IF cur.err # NoError
                     THEN Fail(g, Error(cur.err.msg, StatusBadRequest))
                     ELSE [inflight[g] EXCEPT !.pc = "check"])

\* if mq.page.Current == 0
CheckCurrent(g) ==
    /\ inflight[g].pc = "check"
    /\ Step(g, IF page.Current = 0
               THEN Fail(g, Error("page cannot be 0", StatusBadRequest))
               ELSE [inflight[g] EXCEPT !.pc = "limit"])
    /\ UNCHANGED page

\* q.Limit(int(mq.page.Size))
SetLimit(g) ==
    /\ inflight[g].pc = "limit"
    /\ Step(g, [inflight[g] EXCEPT !.pc = "skip", !.limit = UintToInt(page.Size)])
    /\ UNCHANGED page

\* q.Skip(int((mq.page.Current - 1) * mq.page.Size)); CreateQuery returns q
SetSkip(g) ==
    /\ inflight[g].pc = "skip"
    /\ Step(g, [inflight[g] EXCEPT
                   !.pc = IF inflight[g].op = "Run" THEN "count" ELSE "done",
                   !.skip = UintToInt(((page.Current - 1) * page.Size) % UintMax)])
    /\ UNCHANGED page

\* items, err := countQuery.Count()
Count(g) ==
    /\ inflight[g].pc = "count"
    /\ \/ Step(g, Fail(g, Error("count", StatusBadRequest)))
       \/ \E items \in {0, MaxItems} :
             Step(g, [inflight[g] EXCEPT !.pc = "page", !.items = items])
    /\ UNCHANGED page

\* response := &Response{Page: mq.page}; response.Page.Items = uint(items);
\* response.Page.calculateLastPage()
CopyPage(g) ==
    /\ inflight[g].pc = "page"
    /\ \E p \in calculateLastPage([page EXCEPT !.Items = inflight[g].items]) :
          Step(g, [inflight[g] EXCEPT !.pc = "all", !.Page = p])
    /\ UNCHANGED page

\* err = q.All(content); Run returns
All(g) ==
    /\ inflight[g].pc = "all"
    /\ \/ Step(g, Fail(g, Error("all", StatusInternalServerError)))
       \/ Step(g, [inflight[g] EXCEPT !.pc = "done"])
    /\ UNCHANGED page

NextConcurrent ==
    \E g \in Goroutines :
        \/ \E req \in ConcurrentRequests : Begin(g, "CreateQuery", req)
        \/ \E req \in ConcurrentRequests : Begin(g, "Run", req)
        \/ SetSize(g)
        \/ SetCurrent(g)
        \/ CheckCurrent(g)
        \/ SetLimit(g)
        \/ SetSkip(g)
        \/ Count(g)
        \/ CopyPage(g)
        \/ All(g)

SpecConcurrent == Init /\ [][NextConcurrent]_vars

(***************************************************************************)
(* getFieldNameFromTag on the tags of struct fields                         *)
(***************************************************************************)
\* most comma-separated tokens in the value of a tag
MaxTokens == 2

\* strings.Join(tokens, ",")
RECURSIVE Join(_)
Join(tokens) ==
    IF Len(tokens) = 1 THEN tokens[1]
    ELSE tokens[1] \o "," \o Join(Tail(tokens))

\* the tags: none, a bare value, a bson value, a json value, both
TagTokens == {"", "n", "name", "omitempty", "inline"}
TagValues == {Join(tokens) : tokens \in ValueSeqs(TagTokens, MaxTokens)}
Tags ==
    TagValues
    \cup {"bson:\"" \o v \o "\"" : v \in TagValues}
    \cup {"json:\"" \o v \o "\"" : v \in TagValues}
    \cup {"json:\"j\" bson:\"" \o v \o "\"" : v \in TagValues}

getFieldNameFromTagCall(tag) ==
    /\ Returned
    /\ \E fieldName \in getFieldNameFromTag(tag) :
           last' = [op |-> "getFieldNameFromTag", tag |-> tag, fieldName |-> fieldName]
    /\ UNCHANGED <<endPointStruct, supportedParameters, additionalSupportedParamters,
                   disabledParameters, page, hist, inflight>>

NextTags ==
    \/ \E tag \in Tags : getFieldNameFromTagCall(tag)
    \/ Return

SpecTags == Init /\ [][NextTags]_vars

(***************************************************************************)
(* The registry: NewMongoQuery, DisableParameters and                      *)
(* AddOrOverwriteValidParameter (Spec)                                      *)
(***************************************************************************)
\* the names of a set as a list, the form createValidParametersMap takes them in
AsList(S) == CHOOSE d \in DisabledLists : Len(d) = Cardinality(S) /\ newSetFromSlice(d) = S

\* C1: after NewMongoQuery and any sequence of DisableParameters and
\* AddOrOverwriteValidParameter calls, supportedParameters is the map
\* createValidParametersMap gives for the endpoint struct with every name
\* disabled so far, with every (name, kind) added so far written over it: a
\* disabled name that was never added is absent, and an added name is present
\* with its added kind, whether it was disabled before or after the add.
C1_RegistryIsIntrospectionPlusOverrides ==
    /\ newSetFromSlice(disabledParameters) = hist.disabled
    /\ additionalSupportedParamters = hist.added
    /\ supportedParameters \in
           {Overlay(m, hist.added) : m \in Introspect(endPointStruct, AsList(hist.disabled))}
    /\ \A n \in hist.disabled \ DOMAIN hist.added : n \notin DOMAIN supportedParameters
    /\ \A n \in DOMAIN hist.added :
           n \in DOMAIN supportedParameters /\ supportedParameters[n] = hist.added[n]

\* limit was added as a bool and disabled in the last call, mybool was
\* disabled and never added
C1_DisabledAfterAdd ==
    /\ endPointStruct = TestStruct
    /\ last.op = "DisableParameters"
    /\ contains(last.paramters, "limit")
    /\ "limit" \in DOMAIN hist.added /\ hist.added["limit"] = "bool"
    /\ hist.disabled = {"limit", "mybool"}
    /\ "mybool" \notin DOMAIN hist.added
    /\ supportedParameters["limit"] = "bool"

\* The visible name the introspection is to give a field with the tag: the
\* override name, the first token of the bson value of the tag (or of the
\* whole tag when it has no key:"value" form) that is not omitempty, minsize
\* or inline, else the lower-cased field name.
RECURSIVE FirstName(_, _)
FirstName(tokens, i) ==
    IF i > Len(tokens) THEN ""
    ELSE IF Len(tokens[i]) > 0 /\ ~contains(mongoTags, tokens[i]) THEN tokens[i]
    ELSE FirstName(tokens, i + 1)

VisibleName(field) ==
    LET value == IF ContainsChar(field.Tag, ":") THEN TagGet(field.Tag, "bson") ELSE field.Tag
        override == FirstName(Split(value, ","), 1)
    IN  IF override # "" THEN override ELSE ToLower(field.Name)

\* the fields of a struct with those of its nested structs in their place
RECURSIVE Flatten(_, _)
Flatten(fields, i) ==
    IF i > Len(fields) THEN <<>>
    ELSE (IF fields[i].Kind = "struct" THEN Flatten(fields[i].Fields, 1) ELSE <<fields[i]>>)
         \o Flatten(fields, i + 1)

\* the map the introspection of struct is to return with the names of D disabled
ExpectedParametersMap(struct, D) ==
    LET leaves == Flatten(struct.Fields, 1)
        byName == [n \in {VisibleName(leaves[i]) : i \in 1..Len(leaves)} |->
                      LET f == leaves[CHOOSE i \in 1..Len(leaves) : VisibleName(leaves[i]) = n]
                      IN  IF f.Kind = "slice" THEN f.Elem ELSE f.Kind]
        all == Overlay(byName, [page |-> "uint", limit |-> "uint",
                                field |-> "string", sort |-> "string"])
    IN  [n \in DOMAIN all \ D |-> all[n]]

\* C5: createValidParametersMap(schema, disabled) returns exactly: each scalar
\* field's visible name (override name, else lower-cased field name) mapped
\* to its kind, each slice field's visible name mapped to its element kind,
\* the entries of nested structs flattened, and the four meta-parameters;
\* every disabled name is absent.  (Stated on the registry while nothing has
\* been added to it.)
C5_IntrospectedMapIsExpected ==
    additionalSupportedParamters = EmptyMap =>
        supportedParameters =
            ExpectedParametersMap(endPointStruct, newSetFromSlice(disabledParameters))

\* The registry state DisableParameters(last.paramters...) or
\* AddOrOverwriteValidParameter(last.name, last.value) leaves when the call
\* is made once more.
Registry ==
    [supportedParameters |-> supportedParameters,
     additionalSupportedParamters |-> additionalSupportedParamters,
     disabledParameters |-> disabledParameters]

\* C10: DisableParameters and AddOrOverwriteValidParameter are idempotent: a
\* second application with the same arguments leaves the registry, the
\* disabled list and the added parameters as the first left them, and the
\* disabled list never holds a name twice.
C10_SetupCallsAreIdempotent ==
    /\ last.op = "DisableParameters" =>
           DisableParametersFrom(supportedParameters, additionalSupportedParamters,
                                 disabledParameters, last.paramters) = {Registry}
    /\ last.op = "AddOrOverwriteValidParameter" =>
           AddOrOverwriteValidParameterFrom(supportedParameters, additionalSupportedParamters,
                                            disabledParameters, last.name, last.value) = Registry
    /\ \A i, j \in 1..Len(disabledParameters) :
           disabledParameters[i] = disabledParameters[j] => i = j

\* one call disabled the same name twice, after that name had been disabled
C10_DisabledTwice ==
    /\ last.op = "DisableParameters"
    /\ Len(last.paramters) = 2
    /\ last.paramters[1] = last.paramters[2]
    /\ Len(disabledParameters) = 2
    /\ disabledParameters[1] = last.paramters[1]

(***************************************************************************)
(* createQueryFilter, createSortFields (SpecFilter)                         *)
(***************************************************************************)
MetaNames == {"page", "limit", "field", "sort"}

\* whether the raw value v is a value of the kind
ParsesAs(kind, v) ==
    IF kind \in BoolKinds THEN ParseBool(v).t # "error"
    ELSE IF kind \in IntKinds THEN Atoi(v).t # "error"
    ELSE IF kind \in UintKinds THEN ParseUint(v).t # "error"
    ELSE IF kind \in FloatKinds THEN ParseFloat(v).t # "error"
    ELSE kind = "string"

\* every name of the request is in the registry, and every value of every
\* non-meta parameter is a value of its kind
Acceptable(req) ==
    /\ \A n \in DOMAIN req : n \in DOMAIN supportedParameters
    /\ \A n \in DOMAIN req \ MetaNames :
           \A i \in 1..Len(req[n]) : ParsesAs(supportedParameters[n], req[n][i])

\* C2: createQueryFilter succeeds exactly when every parameter name in the
\* request is in the registry and every value of every non-meta parameter
\* parses under its declared kind; otherwise it returns an error and no
\* filter, whatever the order the parameters are visited in and whichever
\* of the values is the bad one.
C2_FilterAllOrNothing ==
    last.op = "createQueryFilter" =>
        /\ (last.err = NoError) <=> Acceptable(last.req)
        /\ (last.err = NoError) <=> ~last.filter.isNil
        /\ last.filter.isNil => last.filter.m = EmptyMap

\* a call failed on the second value of a parameter whose first value parses
C2_SecondValueBad ==
    /\ last.op = "createQueryFilter"
    /\ last.err # NoError
    /\ \E n \in DOMAIN last.req \ MetaNames :
          /\ n \in DOMAIN supportedParameters
          /\ Len(last.req[n]) = 2
          /\ ParsesAs(supportedParameters[n], last.req[n][1])
          /\ ~ParsesAs(supportedParameters[n], last.req[n][2])

\* C3: each key of a successfully built filter is a member of the current
\* registry and none of the four meta-parameter names page, limit, field,
\* sort, also when a meta-parameter name was overridden with another kind.
C3_FilterKeysAreRegisteredNonMeta ==
    (last.op = "createQueryFilter" /\ ~last.filter.isNil) =>
        \A k \in DOMAIN last.filter.m :
            k \in DOMAIN supportedParameters /\ k \notin MetaNames

\* a filter was built from a request with limit and another parameter,
\* limit being registered as a bool
C3_LimitOverridden ==
    /\ last.op = "createQueryFilter"
    /\ ~last.filter.isNil
    /\ DOMAIN last.filter.m # {}
    /\ "limit" \in DOMAIN last.req
    /\ supportedParameters["limit"] = "bool"

\* the term a filter is to hold for a parameter of the kind with the values
ReferenceValue(kind, v, N) ==
    IF kind = "string"
    THEN IF IsObjectIdHex(v) THEN Val("ObjectId", v)
         ELSE IF N = 1 THEN Val("RegEx", v) ELSE Val("string", v)
    ELSE IF kind \in BoolKinds THEN ParseBool(v)
    ELSE IF kind \in IntKinds THEN Atoi(v)
    ELSE IF kind \in UintKinds THEN ParseUint(v)
    ELSE ParseFloat(v)

ReferenceTerm(kind, values) ==
    IF Len(values) = 1 THEN ReferenceValue(kind, values[1], 1)
    ELSE Val("$in", [i \in 1..Len(values) |-> ReferenceValue(kind, values[i], Len(values))])

\* C4: for a recognized non-meta parameter with N raw values the filter term
\* is the reference term: with N = 1 the single parsed value (for a string an
\* identifier literal when it is 24 hexadecimal characters, otherwise a
\* pattern term), with N > 1 a $in term of the parsed values in input order
\* with duplicates kept (strings: identifier literals and plain strings).
C4_FilterTermIsReferenceTerm ==
    (last.op = "createQueryFilter" /\ last.err = NoError) =>
        /\ DOMAIN last.filter.m = DOMAIN last.req \ MetaNames
        /\ \A n \in DOMAIN last.req \ MetaNames :
               last.filter.m[n] = ReferenceTerm(supportedParameters[n], last.req[n])

\* a filter was built for a string parameter with two values, an identifier
\* and a plain string
C4_StringPair ==
    /\ last.op = "createQueryFilter"
    /\ last.err = NoError
    /\ \E n \in DOMAIN last.req \ MetaNames :
          /\ supportedParameters[n] = "string"
          /\ Len(last.req[n]) = 2
          /\ IsObjectIdHex(last.req[n][1])
          /\ ~IsObjectIdHex(last.req[n][2])

\* a sort value without one leading descending marker
TrimPrefixOnce(v, c) == IF Len(v) > 0 /\ Char(v, 1) = c THEN SubSeq(v, 2, Len(v)) ELSE v

\* C6: createSortFields strips a single optional leading '-' from each sort
\* value and accepts the value only if the remainder is a registry key; if
\* any value fails this check the call fails with no sort list, otherwise
\* the result is the list of the original values in input order.
C6_SortStripsOneLeadingMarker ==
    (last.op = "createSortFields" /\ "sort" \in DOMAIN last.req) =>
        LET values == last.req["sort"]
            ok == \A i \in 1..Len(values) :
                      TrimPrefixOnce(values[i], "-") \in DOMAIN supportedParameters
        IN  /\ (last.err = NoError) <=> ok
            /\ ok => last.sortFields = Some(values)
            /\ ~ok => last.sortFields.isNil

(***************************************************************************)
(* CreateQuery and Run (SpecQuery)                                          *)
(***************************************************************************)
\* C7: CreateQuery, and Run through it, on a request in which some field
\* value is not a registry key fails with an error and produces no query.
C7_UnknownFieldFailsTheQuery ==
    (/\ last.op \in {"CreateQuery", "Run"}
     /\ "field" \in DOMAIN last.req
     /\ \E i \in 1..Len(last.req["field"]) :
            last.req["field"][i] \notin DOMAIN supportedParameters)
    => (last.err # NoError /\ last.q.isNil)

Numeric(s) == Len(s) > 0 /\ IsDigits(s)

\* C8: in CreateQuery size is the parsed limit or the default page size when
\* limit is absent, current is the parsed page or 1 when page is absent; a
\* non-numeric limit or page fails the call, page=0 fails the call, and on
\* success the skip of the query is (current - 1) * size.
C8_PageResolution ==
    last.op = "CreateQuery" =>
        LET req == last.req
            hasLimit == "limit" \in DOMAIN req
            hasPage  == "page" \in DOMAIN req
            limit == IF hasLimit THEN req["limit"][1] ELSE ""
            pageNo == IF hasPage THEN req["page"][1] ELSE ""
            size == IF hasLimit THEN DecimalVal(limit) ELSE DefaultPageSize
            current == IF hasPage THEN DecimalVal(pageNo) ELSE 1
        IN  /\ (hasLimit /\ ~Numeric(limit)) => last.err # NoError
            /\ (hasPage /\ ~Numeric(pageNo)) => last.err # NoError
            /\ (hasPage /\ Numeric(pageNo) /\ DecimalVal(pageNo) = 0) => last.err # NoError
            /\ last.err = NoError =>
                   /\ page.Size = size
                   /\ page.Current = current
                   /\ last.q.m.skip = (current - 1) * size

\* C9: a request with limit=0 is rejected before the query is built, so
\* whenever calculateLastPage runs the page size is positive.
C9_LastPageOnPositiveSize ==
    /\ (/\ last.op \in {"CreateQuery", "Run"}
        /\ "limit" \in DOMAIN last.req
        /\ Numeric(last.req["limit"][1])
        /\ DecimalVal(last.req["limit"][1]) = 0)
       => last.q.isNil
    /\ (last.op = "Run" /\ ~last.calculated.isNil) => last.calculated.m.Size > 0

\* C11: Run calls the store's Count first and its All second; if either call
\* fails Run returns no response and an error with the HTTP code 500, and an
\* All that fetches no document is a success with empty content.
C11_StoreFailureIsServerError ==
    last.op = "Run" =>
        /\ \A i \in 1..Len(last.calls) :
               last.calls[i].call = (IF i = 1 THEN "Count" ELSE "All")
        /\ Len(last.calls) <= 2
        /\ (Len(last.calls) > 0 /\ last.err # NoError) =>
               /\ last.response.isNil
               /\ last.err.code = StatusInternalServerError
        /\ (last.err = NoError) =>
               /\ Len(last.calls) = 2
               /\ ~last.response.isNil

\* the least n with n * size >= items: ceiling(items / size)
IsCeiling(n, items, size) ==
    /\ size > 0
    /\ n * size >= items
    /\ n = 0 \/ (n - 1) * size < items

\* C12: on a successful Run the response page has Items equal to the count
\* of the query with limit and skip reset, Last equal to
\* ceiling(Items / Size), and Size and Current as resolved from the request;
\* the reset on the count query leaves the fetch query's limit, skip, sort
\* and projection as CreateQuery set them.
C12_ResponsePage ==
    (last.op = "Run" /\ last.err = NoError) =>
        LET p == last.response.m.Page
            size == getUint(last.req, "limit", DefaultPageSize).v
            current == getUint(last.req, "page", 1).v
        IN  /\ last.calls[1] = [call |-> "Count",
                                q |-> [last.q.m EXCEPT !.limit = 0, !.skip = 0]]
            /\ last.calls[2] = [call |-> "All", q |-> last.q.m]
            /\ p.Items = last.calculated.m.Items
            /\ p.Size = size
            /\ p.Current = current
            /\ IsCeiling(p.Last, p.Items, p.Size)

\* C12 on the requests whose page size is not 0
C12_ResponsePageOfPositiveSize ==
    (last.op = "Run" /\ last.err = NoError /\ last.response.m.Page.Size > 0) =>
        C12_ResponsePage

(***************************************************************************)
(* concurrent CreateQuery and Run (SpecConcurrent)                          *)
(***************************************************************************)
\* what CreateQuery returns for the request when it runs alone
Alone(req) ==
    CreateQueryOf(endPointStruct, supportedParameters, page, req,
                  CHOOSE order \in Orders(req) : TRUE)

\* C13: when several Run / CreateQuery calls are in flight on one MongoQuery
\* after setup, no state of one request leaks into another: a call that
\* returns without error has set the limit and skip resolved from its own
\* request on its query, its response's Page has the Size and Current
\* resolved from its own request, and a call whose own request is to be
\* refused returns an error, under every interleaving.
C13_NoLeakBetweenRequests ==
    \A g \in Goroutines :
        inflight[g].pc = "done" =>
            LET own == Alone(inflight[g].req)
            IN  /\ own.err # NoError => inflight[g].err # NoError
                /\ (inflight[g].err = NoError /\ own.err = NoError) =>
                       /\ inflight[g].limit = own.q.m.limit
                       /\ inflight[g].skip = own.q.m.skip
                       /\ inflight[g].op = "Run" =>
                              /\ inflight[g].Page.Size = own.page.Size
                              /\ inflight[g].Page.Current = own.page.Current

\* C13 while only one call is in flight
C13_NoLeakWhenAlone ==
    (\E g \in Goroutines : \A h \in Goroutines \ {g} : inflight[h].pc = "idle")
        => C13_NoLeakBetweenRequests

(***************************************************************************)
(* getFieldNameFromTag (SpecTags)                                           *)
(***************************************************************************)
\* the value of the naming annotation of a tag: its bson value, or the whole
\* tag when it is a bare value
NamingValue(tag) == IF ContainsChar(tag, ":") THEN TagGet(tag, "bson") ELSE tag

\* the first token, in order, that is none of omitempty, minsize, inline
RECURSIVE FirstRemaining(_, _)
FirstRemaining(tokens, i) ==
    IF i > Len(tokens) THEN ""
    ELSE IF ~contains(mongoTags, tokens[i]) THEN tokens[i]
    ELSE FirstRemaining(tokens, i + 1)

\* C14: getFieldNameFromTag is a deterministic function of the tag: it splits
\* the value of the naming annotation on commas, drops the tokens omitempty,
\* minsize and inline and returns the first remaining token in annotation
\* order, for override names of any length and for several remaining tokens;
\* it returns the empty string when no token remains, when there is no
\* annotation, or when the tag holds only annotations of other namespaces.
C14_FieldNameIsFirstRemainingToken ==
    last.op = "getFieldNameFromTag" =>
        last.fieldName = FirstRemaining(Split(NamingValue(last.tag), ","), 1)

\* C14 on the tags whose bson value, if any, is longer than one character
\* and that leave at most one token
C14_FieldNameOfLongSingleName ==
    (/\ last.op = "getFieldNameFromTag"
     /\ Len(TagGet(last.tag, "bson")) # 1
     /\ Cardinality(newSetFromSlice(Split(NamingValue(last.tag), ","))
                    \ newSetFromSlice(mongoTags)) <= 1)
    => C14_FieldNameIsFirstRemainingToken
====
